---------------------------- MODULE Spec2Model ----------------------------
(***************************************************************************)
(* A model of MemVec: the pointer codec (src/src/vectors/pointer.py), the  *)
(* Vector value object, the writer (FileProcessor.process_file and         *)
(* add_file_to_system), the chunk store (upload/download/delete against    *)
(* MockS3Client), the CacheLayer, the HNSWIndex wrapper and query_system.  *)
(*                                                                         *)
(* Python integers are unbounded; the pointer arithmetic shifts a 27-bit   *)
(* field by 36 bits, which no integer of the model checker holds.  A       *)
(* Python int is therefore modelled by its two's-complement bit pattern:   *)
(* [neg |-> FALSE, bits |-> S] is the sum of 2^i for i in S, and           *)
(* [neg |-> TRUE, bits |-> S] is the negative number whose ZERO bits are   *)
(* exactly S (so -1 is [neg |-> TRUE, bits |-> {}]).  <<, >>, & and | are  *)
(* computed on these patterns bit by bit, at the field widths of the       *)
(* source (16, 20, 27).                                                    *)
(***************************************************************************)
EXTENDS Integers, Sequences, FiniteSets, TLC

VARIABLES
    pa, pb,        \* codec harness: two (document, chunk, offset) inputs
    pret,          \* codec harness: what the last codec call returned
    index,         \* HNSWIndex.index: the (id, embedding) entries, in storage order
    scan,          \* the order in which the graph index visits its entries
    objects,       \* MockS3Client.objects: full key -> {Body, ContentType}
    cache,         \* CacheLayer.client: key -> pickled value and its ttl
    minted,        \* the files ingested and the document id generate_document_id
                   \* returned for each, in order
    wfile,         \* the file the last process_file call read
    wchunks,       \* a caller's chunks = processor.process_file(...), not yet uploaded
    wres,          \* what the last add_file_to_system call was given and returned
    qcall,         \* the arguments of the last query_system call
    qres,          \* what it returned
    qtrace,        \* what it did: the search's answer, chunks resolved, store gets
    prev,          \* the same call's previous return and trace, with only
                   \* store deletions in between
    calls          \* per thread, the call it is in and how far it has come

ptrVars == <<pa, pb, pret>>
queryVars == <<qcall, qres, qtrace, prev>>
sysVars == <<index, scan, objects, cache, minted, wfile, wchunks, wres, qcall, qres, qtrace, prev, calls>>
vars == <<pa, pb, pret, index, scan, objects, cache, minted, wfile, wchunks, wres, qcall, qres, qtrace, prev, calls>>

\* Python's None
None == [py |-> "None"]

\* No call made yet
NoCall == [op |-> "none"]

\* An empty dict
EmptyMap == [x \in {} |-> x]

-----------------------------------------------------------------------------
(* Python int arithmetic on bit patterns *)

\* The bit positions of a natural number that the model checker can hold (n < 2^31).
BitsOf(n) == {i \in 0..30 : (n \div (2^i)) % 2 = 1}

PyNat(n) == [neg |-> FALSE, bits |-> BitsOf(n)]

RECURSIVE SumPow(_)
SumPow(S) == IF S = {} THEN 0
             ELSE LET i == CHOOSE x \in S : TRUE IN 2^i + SumPow(S \ {i})

\* The number a non-negative pattern below 2^31 stands for.
NatOf(x) == SumPow(x.bits)

PyZero == [neg |-> FALSE, bits |-> {}]
PyOne == [neg |-> FALSE, bits |-> {0}]
PyMinusOne == [neg |-> TRUE, bits |-> {}]

\* x << k
Shl(x, k) ==
    IF x.neg
    THEN [neg |-> TRUE, bits |-> {i + k : i \in x.bits} \cup 0..(k - 1)]
    ELSE [neg |-> FALSE, bits |-> {i + k : i \in x.bits}]

\* x >> k (arithmetic, as Python's)
Shr(x, k) == [neg |-> x.neg, bits |-> {i - k : i \in {j \in x.bits : j >= k}}]

\* x & y
BitAnd(x, y) ==
    CASE ~x.neg /\ ~y.neg -> [neg |-> FALSE, bits |-> x.bits \cap y.bits]
      [] ~x.neg /\ y.neg  -> [neg |-> FALSE, bits |-> x.bits \ y.bits]
      [] x.neg /\ ~y.neg  -> [neg |-> FALSE, bits |-> y.bits \ x.bits]
      [] OTHER            -> [neg |-> TRUE, bits |-> x.bits \cup y.bits]

\* x | y
BitOr(x, y) ==
    CASE ~x.neg /\ ~y.neg -> [neg |-> FALSE, bits |-> x.bits \cup y.bits]
      [] ~x.neg /\ y.neg  -> [neg |-> TRUE, bits |-> y.bits \ x.bits]
      [] x.neg /\ ~y.neg  -> [neg |-> TRUE, bits |-> x.bits \ y.bits]
      [] OTHER            -> [neg |-> TRUE, bits |-> x.bits \cap y.bits]

\* x - 1 for x > 0: the lowest set bit is cleared and the bits below it set.
Pred(x) ==
    LET low == CHOOSE i \in x.bits : \A j \in x.bits : i <= j
    IN  [neg |-> FALSE, bits |-> (x.bits \ {low}) \cup 0..(low - 1)]

\* 0 <= x < 2^w
InBits(x, w) == ~x.neg /\ x.bits \subseteq 0..(w - 1)

-----------------------------------------------------------------------------
(* src/src/config/contants.py *)

OFFSET_BITS == 16
CHUNK_BITS == 20
DOCUMENT_BITS == 27
DEFAULT_HNSW_M == 16

\* The source sets 100; the specification treats it as the configuration
\* option max_vectors_per_chunk (its scenario S2 runs it at 3).  The model
\* runs it small so that a document of a few passages spans several chunks.
MAX_VECTORS_PER_CHUNK == 2

-----------------------------------------------------------------------------
(* src/src/vectors/pointer.py: class Pointer *)

MAX_OFFSET == Pred(Shl(PyOne, OFFSET_BITS))
MAX_CHUNK == Pred(Shl(PyOne, CHUNK_BITS))
MAX_DOCUMENT == Pred(Shl(PyOne, DOCUMENT_BITS))

OFFSET_MASK == MAX_OFFSET
CHUNK_SHIFT == OFFSET_BITS
DOCUMENT_SHIFT == OFFSET_BITS + CHUNK_BITS

\* A wrong packing: the document field shifted by the chunk shift
encode_overlapping(document, chunk, offset) ==
    BitOr(BitOr(Shl(document, CHUNK_SHIFT), Shl(chunk, CHUNK_SHIFT)), offset)

\* Pointer.encode(document, chunk, offset): no range check is made.
encode(document, chunk, offset) ==
    BitOr(BitOr(Shl(document, DOCUMENT_SHIFT), Shl(chunk, CHUNK_SHIFT)), offset)

\* Pointer.decode(index) -> (document, chunk, offset)
decode(idx) ==
    [document |-> BitAnd(Shr(idx, DOCUMENT_SHIFT), MAX_DOCUMENT),
     chunk    |-> BitAnd(Shr(idx, CHUNK_SHIFT), MAX_CHUNK),
     offset   |-> BitAnd(idx, OFFSET_MASK)]

\* A wrong chunk id: the document shifted by the offset width
chunk_id_narrow(document, chunk) == BitOr(Shl(document, OFFSET_BITS), chunk)

\* Pointer.generate_chunk_id(document, chunk)
generate_chunk_id(document, chunk) == BitOr(Shl(document, CHUNK_BITS), chunk)

\* Pointer.decode_chunk_id(chunk_id) -> (document, chunk)
decode_chunk_id(chunk_id) ==
    [document |-> BitAnd(Shr(chunk_id, CHUNK_BITS), MAX_DOCUMENT),
     chunk    |-> BitAnd(chunk_id, MAX_CHUNK)]

\* Pointer.__init__ with Pointer._encode: the stored fields and the index.
Pointer(document, chunk, offset) ==
    [document |-> document, chunk |-> chunk, offset |-> offset,
     index |-> BitOr(BitOr(Shl(document, DOCUMENT_SHIFT),
                           Shl(chunk, CHUNK_SHIFT)), offset)]

\* A wrong unpacking: the document field read through the chunk mask
from_index_low(idx) ==
    Pointer(BitAnd(Shr(idx, DOCUMENT_SHIFT), MAX_CHUNK),
            BitAnd(Shr(idx, CHUNK_SHIFT), MAX_CHUNK),
            BitAnd(idx, OFFSET_MASK))

\* Pointer.from_index(index)
from_index(idx) ==
    Pointer(BitAnd(Shr(idx, DOCUMENT_SHIFT), MAX_DOCUMENT),
            BitAnd(Shr(idx, CHUNK_SHIFT), MAX_CHUNK),
            BitAnd(idx, OFFSET_MASK))

\* Pointer.get_chunk_id(self)
get_chunk_id(pointer) == BitOr(Shl(pointer.document, CHUNK_BITS), pointer.chunk)

\* generate_document_id(): random.randint(0, (1 << DOCUMENT_BITS) - 1) may
\* return any value of the range; the model draws from a sample of it.
DocSample == {PyNat(12345), MAX_DOCUMENT}


-----------------------------------------------------------------------------
(* Values: numpy arrays, pickles, Python exceptions *)

Raise(what) == [raised |-> TRUE, error |-> what]

\* numpy float32 of a number: integers of magnitude up to 2^24 are exact; a
\* larger one is rounded to the nearest multiple of 2 (to even), which is
\* all the model's values, below 2^25, need.
Float32(x) ==
    LET a == IF x < 0 THEN -x ELSE x
        r == IF a <= 2^24 THEN a
             ELSE IF a % 2 = 0 THEN a
             ELSE IF ((a - 1) \div 2) % 2 = 0 THEN a - 1 ELSE a + 1
    IN  IF x < 0 THEN -r ELSE r

Float32Row(values) == [i \in 1..Len(values) |-> Float32(values[i])]

\* ndarray.astype(np.float32); a Vector object has no such method.
HasAstype(v) == "dtype" \in DOMAIN v

\* pickle.dumps / pickle.loads
PickleDumps(x) == [pickle |-> x]
PickleLoads(b) == IF "pickle" \in DOMAIN b THEN b.pickle ELSE Raise("UnpicklingError")

-----------------------------------------------------------------------------
(* src/src/vectors/vectors.py: class Vector *)

\* Vector(values, document=, chunk=, offset=, metadata=)
Vector(values, document, chunk, offset, metadata) ==
    [values |-> values, pointer |-> Pointer(document, chunk, offset),
     metadata |-> metadata]

\* Vector(values, index=, metadata=): "index is not None" holds for index 0
\* too, so every integer takes the from_index branch
VectorFromIndex(values, idx, metadata) ==
    [values |-> values, pointer |-> from_index(idx), metadata |-> metadata]

\* Vector.to_numpy(self): np.array(self.values, dtype=np.float32)
to_numpy(vector) == [dtype |-> "float32", data |-> Float32Row(vector.values)]

\* Vector.get_chunk_id(self)
VectorGetChunkId(vector) == get_chunk_id(vector.pointer)

-----------------------------------------------------------------------------
(* src/src/query.py: _group_vectors_by_chunk *)

\* The dict it builds keeps insertion order: a sequence of (chunk_id, ids).
GroupPos(groups, cid) == {i \in 1..Len(groups) : groups[i].chunk_id = cid}

GroupAdd(groups, vector_id) ==
    LET p == decode(vector_id)
        chunk_id == generate_chunk_id(p.document, p.chunk)
    IN  IF GroupPos(groups, chunk_id) = {}
        THEN Append(groups, [chunk_id |-> chunk_id, ids |-> <<vector_id>>])
        ELSE LET i == CHOOSE j \in GroupPos(groups, chunk_id) : TRUE
             IN  [groups EXCEPT ![i].ids = Append(@, vector_id)]

RECURSIVE GroupFold(_, _)
GroupFold(groups, vector_ids) ==
    IF vector_ids = <<>> THEN groups
    ELSE GroupFold(GroupAdd(groups, Head(vector_ids)), Tail(vector_ids))

_group_vectors_by_chunk(vector_ids) == GroupFold(<<>>, vector_ids)

-----------------------------------------------------------------------------
(* src/src/s3/chunker.py *)

\* A wrong stacking: the last vector is left out
prepare_vectors_truncated(vectors) ==
    IF \E i \in 1..Len(vectors) : ~HasAstype(vectors[i])
    THEN Raise("AttributeError: 'Vector' object has no attribute 'astype'")
    ELSE IF vectors = <<>> THEN Raise("ValueError: need at least one array to stack")
    ELSE [raised |-> FALSE,
          array |-> [dtype |-> "float32",
                     rows |-> [i \in 1..(Len(vectors) - 1) |-> Float32Row(vectors[i].data)]]]

\* prepare_vectors_for_storage(vectors): np.stack of vector.astype(float32)
prepare_vectors_for_storage(vectors) ==
    IF \E i \in 1..Len(vectors) : ~HasAstype(vectors[i])
    THEN Raise("AttributeError: 'Vector' object has no attribute 'astype'")
    ELSE IF vectors = <<>> THEN Raise("ValueError: need at least one array to stack")
    ELSE [raised |-> FALSE,
          array |-> [dtype |-> "float32",
                     rows |-> [i \in 1..Len(vectors) |-> Float32Row(vectors[i].data)]]]

\* create_chunk_key(chunk_id): f"chunks/{chunk_id}.pkl"
create_chunk_key(chunk_id) == <<"chunks/", chunk_id, ".pkl">>

\* get_chunk_info(vectors, chunk_id)
get_chunk_info(vectors, chunk_id) ==
    [chunk_id |-> chunk_id, number_of_vectors |-> Len(vectors),
     s3_key |-> create_chunk_key(chunk_id)]

-----------------------------------------------------------------------------
(* src/src/s3/mock_client.py: MockS3Client, on a given objects dict *)

\* f"{Bucket}/{Key}"
FullKey(Bucket, Key) == <<Bucket, "/", Key>>

Without(f, k) == [x \in DOMAIN f \ {k} |-> f[x]]
With(f, k, v) == [x \in DOMAIN f \cup {k} |-> IF x = k THEN v ELSE f[x]]

put_object(objs, Bucket, Key, Body, ContentType) ==
    With(objs, FullKey(Bucket, Key), [Body |-> Body, ContentType |-> ContentType])

get_object(objs, Bucket, Key) ==
    IF FullKey(Bucket, Key) \notin DOMAIN objs
    THEN Raise("Object not found")
    ELSE [raised |-> FALSE, Body |-> objs[FullKey(Bucket, Key)].Body]

\* A wrong delete: the bucket is emptied
delete_object_all(objs, Bucket, Key) == EmptyMap

delete_object(objs, Bucket, Key) ==
    IF FullKey(Bucket, Key) \in DOMAIN objs THEN Without(objs, FullKey(Bucket, Key)) ELSE objs

-----------------------------------------------------------------------------
(* src/src/s3/chunk_upload.py and src/src/s3/delete.py *)

\* upload_vector_chunk(vectors, s3_client, bucket_name, chunk_id); putOK says
\* whether the client's put_object succeeds.  prepare_vectors_for_storage and
\* get_chunk_info run before the try: what they raise reaches the caller.
upload_vector_chunk(vectors, objs, putOK, bucket_name, chunk_id) ==
    LET prepared == prepare_vectors_for_storage(vectors)
        vectors_key == get_chunk_info(vectors, chunk_id).s3_key
    IN  IF prepared.raised
        THEN [raised |-> TRUE, error |-> prepared.error, objects |-> objs, put_calls |-> 0]
        ELSE IF putOK
        THEN [raised |-> FALSE, put_calls |-> 1,
              objects |-> put_object(objs, bucket_name, vectors_key,
                                     PickleDumps(prepared.array), "application/octet-stream"),
              result |-> [chunk_id |-> chunk_id, number_of_vectors |-> Len(vectors),
                          s3_key |-> vectors_key, success |-> TRUE]]
        ELSE [raised |-> FALSE, put_calls |-> 1, objects |-> objs,
              result |-> [chunk_id |-> chunk_id, number_of_vectors |-> Len(vectors),
                          s3_key |-> vectors_key, success |-> FALSE,
                          error |-> "put_object failed"]]

\* download_vector_chunk(chunk_id, s3_client, bucket_name)
download_vector_chunk(chunk_id, objs, bucket_name) ==
    LET got == get_object(objs, bucket_name, create_chunk_key(chunk_id))
        loaded == IF got.raised THEN got ELSE PickleLoads(got.Body)
    IN  IF got.raised THEN [vectors |-> None, success |-> FALSE, error |-> got.error]
        ELSE IF "raised" \in DOMAIN loaded
        THEN [vectors |-> None, success |-> FALSE, error |-> loaded.error]
        ELSE [vectors |-> loaded, success |-> TRUE]

\* download_multiple_vector_chunks(chunk_ids, s3_client, bucket_name): the
\* chunks that came (a dict chunk_id -> array) and the errors of the others.
download_multiple_vector_chunks(chunk_ids, objs, bucket_name) ==
    LET ok == {i \in 1..Len(chunk_ids) :
                   download_vector_chunk(chunk_ids[i], objs, bucket_name).success}
        okIds == {chunk_ids[i] : i \in ok}
        badIds == {chunk_ids[i] : i \in (1..Len(chunk_ids)) \ ok}
    IN  [chunks |-> [c \in okIds |-> download_vector_chunk(c, objs, bucket_name).vectors],
         success |-> (badIds = {}),
         errors |-> [c \in badIds |-> download_vector_chunk(c, objs, bucket_name).error],
         total_requested |-> Len(chunk_ids),
         total_successful |-> Cardinality(okIds),
         total_failed |-> Cardinality(badIds)]

\* delete_vector_chunk(chunk_id, bucket_name, s3_client)
delete_vector_chunk(chunk_id, objs, bucket_name) ==
    [objects |-> delete_object(objs, bucket_name, create_chunk_key(chunk_id)),
     result |-> [chunk_id |-> chunk_id, s3_key |-> create_chunk_key(chunk_id),
                 success |-> TRUE]]

-----------------------------------------------------------------------------
(* src/src/cache/cache_layer.py: CacheLayer, on a given key -> entry map *)

\* set(key, value, ttl): the pickled value under the key, ex=ttl
set(c, key, value, ttl) == With(c, key, [data |-> PickleDumps(value), ex |-> ttl])

\* get(key): None for a key that is not there, else the unpickled value
get(c, key) == IF key \notin DOMAIN c THEN None ELSE PickleLoads(c[key].data)

\* A wrong delete: it reports a deletion whether or not the key was there
delete_always(c, key) == [cache |-> Without(c, key), result |-> TRUE]

\* delete(key): bool(client.delete(key)), the number of keys removed
delete(c, key) == [cache |-> Without(c, key), result |-> key \in DOMAIN c]

\* clear(): flushdb
clear(c) == EmptyMap

\* exists(key)
exists(c, key) == key \in DOMAIN c

\* batch_get(keys): the keys that exist, unpickled.  up says whether the
\* Redis client answers: pipe.execute() raises when it does not, and
\* pickle.loads raises on an entry that is no pickle; nothing here catches
\* either.
batch_get(c, up, keys) ==
    IF keys = <<>> THEN [raised |-> FALSE, out |-> EmptyMap]
    ELSE IF ~up THEN Raise("ConnectionError")
    ELSE IF \E k \in {keys[i] : i \in 1..Len(keys)} \cap DOMAIN c :
                "raised" \in DOMAIN PickleLoads(c[k].data)
    THEN Raise("UnpicklingError")
    ELSE [raised |-> FALSE,
          out |-> [k \in {keys[i] : i \in 1..Len(keys)} \cap DOMAIN c |->
                      PickleLoads(c[k].data)]]

\* batch_set(items, ttl): items is a dict key -> value
batch_set(c, items, ttl) ==
    IF DOMAIN items = {} THEN c
    ELSE [k \in DOMAIN c \cup DOMAIN items |->
             IF k \in DOMAIN items
             THEN [data |-> PickleDumps(items[k]), ex |-> ttl]
             ELSE c[k]]

-----------------------------------------------------------------------------
(* The faiss index behind HNSWIndex (IndexIDMap2 over IndexHNSWFlat), as    *)
(* src/src/index/index.py uses it: add_with_ids, search, range_search.      *)

\* Squared L2 distance
RECURSIVE SqDist(_, _)
SqDist(u, v) ==
    IF u = <<>> THEN 0
    ELSE (Head(u) - Head(v)) * (Head(u) - Head(v)) + SqDist(Tail(u), Tail(v))

Reverse(s) == [i \in 1..Len(s) |-> s[Len(s) + 1 - i]]

\* The entries in the order the graph visits them: fixed for an index, and
\* not the order of their distances.
Visited(entries, order) == IF order = "forward" THEN entries ELSE Reverse(entries)

\* search pads a short answer with the label -1 at the largest float
PadDistance == 2^30
PadEntry == [id |-> PyMinusOne, values |-> <<>>]

DistOf(e, q) == IF e.values = <<>> THEN PadDistance ELSE SqDist(e.values, q)

\* The first entry of cands at the least distance from q
NearestPos(cands, q) ==
    CHOOSE i \in 1..Len(cands) :
        /\ \A j \in 1..Len(cands) : DistOf(cands[i], q) <= DistOf(cands[j], q)
        /\ \A j \in 1..(i - 1) : DistOf(cands[j], q) > DistOf(cands[i], q)

RemoveAt(s, i) == [j \in 1..(Len(s) - 1) |-> IF j < i THEN s[j] ELSE s[j + 1]]

\* index.search(query, k): the k nearest entries, nearest first, padded
RECURSIVE faiss_search(_, _, _)
faiss_search(cands, q, k) ==
    IF k = 0 THEN <<>>
    ELSE IF cands = <<>> THEN <<PadEntry>> \o faiss_search(cands, q, k - 1)
    ELSE LET i == NearestPos(cands, q)
         IN  <<cands[i]>> \o faiss_search(RemoveAt(cands, i), q, k - 1)

\* index.range_search(query, radius): every entry strictly within the
\* radius, in the order visited
InRadius(e, q, radius) == SqDist(e.values, q) < radius

RECURSIVE faiss_range_search(_, _, _)
faiss_range_search(cands, q, radius) ==
    IF cands = <<>> THEN <<>>
    ELSE IF InRadius(Head(cands), q, radius)
    THEN <<Head(cands)>> \o faiss_range_search(Tail(cands), q, radius)
    ELSE faiss_range_search(Tail(cands), q, radius)

-----------------------------------------------------------------------------
(* src/src/index/index.py: class HNSWIndex *)

\* A wrong add: the index is rebuilt from the vectors given
add_vectors_rebuilt(entries, vectors) ==
    [i \in 1..Len(vectors) |->
        [id |-> vectors[i].pointer.index, values |-> Float32Row(vectors[i].values)]]

\* add_vectors(vectors): nothing for an empty list, else add_with_ids of the
\* float32 embeddings under the vectors' own index values
add_vectors(entries, vectors) ==
    IF vectors = <<>> THEN entries
    ELSE entries \o [i \in 1..Len(vectors) |->
                        [id |-> vectors[i].pointer.index,
                         values |-> Float32Row(vectors[i].values)]]

\* search(query_embedding, k, threshold) -> (distances, vector_ids); a
\* threshold is None or [float |-> t].  With a
\* threshold and more than k entries in range, the results are rebuilt as
\* Python lists and the final .tolist() of a list raises AttributeError.
search(entries, order, query_embedding, k, threshold) ==
    LET q == Float32Row(query_embedding)
        found == IF threshold = None
                 THEN faiss_search(Visited(entries, order), q, k)
                 ELSE faiss_range_search(Visited(entries, order), q, threshold.float)
    IN  IF threshold # None /\ Len(found) > k
        THEN Raise("AttributeError: 'list' object has no attribute 'tolist'")
        ELSE [raised |-> FALSE,
              distances |-> [i \in 1..Len(found) |-> DistOf(found[i], q)],
              vector_ids |-> [i \in 1..Len(found) |-> found[i].id]]

\* multi_search(query_vectors, k, threshold) -> (distances, vector_ids), a
\* list per query.  Nothing for no queries; without a threshold one batched
\* index.search; with a threshold one batched range_search whose hits are
\* taken query by query between lims[i] and lims[i + 1], and the .tolist()
\* of the lists built for a query with more than k hits raises.
multi_search(entries, order, query_vectors, k, threshold) ==
    LET q(i) == Float32Row(query_vectors[i].values)
        hits(i) == IF threshold = None
                   THEN faiss_search(Visited(entries, order), q(i), k)
                   ELSE faiss_range_search(Visited(entries, order), q(i), threshold.float)
    IN  IF query_vectors = <<>>
        THEN [raised |-> FALSE, distances |-> <<>>, vector_ids |-> <<>>]
        ELSE IF threshold # None /\ \E i \in 1..Len(query_vectors) : Len(hits(i)) > k
        THEN Raise("AttributeError: 'list' object has no attribute 'tolist'")
        ELSE [raised |-> FALSE,
              distances |-> [i \in 1..Len(query_vectors) |->
                  [n \in 1..Len(hits(i)) |-> DistOf(hits(i)[n], q(i))]],
              vector_ids |-> [i \in 1..Len(query_vectors) |->
                  [n \in 1..Len(hits(i)) |-> hits(i)[n].id]]]

\* get_info()
get_info(entries, dimension, m) ==
    [total_vectors |-> Len(entries), dimension |-> dimension, m |-> m, is_trained |-> TRUE]

\* size()
size(entries) == Len(entries)

-----------------------------------------------------------------------------
(* src/src/processes: the extractor, the embedder, FileProcessor *)

\* A text is (file, position); the embedder is a pure function of the text.
\* The texts of different files differ, and so do their embeddings.
generate_one(text) == <<text[2] + 1, text[1] - 1>>

generate(texts) == [i \in 1..Len(texts) |-> generate_one(texts[i])]

\* text_extractor.extract(file_obj, filename): the passages of the file
extract(file) == [i \in 1..file.n |-> <<file.content, i - 1>>]

\* A wrong turn: a new chunk is started and the offset runs on
ChunkStepNoReset(st, file, texts, embeddings, document_id, i) ==
    LET s1 == IF st.current_offset >= MAX_VECTORS_PER_CHUNK
              THEN [chunks |-> Append(st.chunks, st.current_chunk_vectors),
                    current_chunk_vectors |-> <<>>,
                    current_chunk |-> st.current_chunk + 1,
                    current_offset |-> st.current_offset]
              ELSE st
        vector == Vector(embeddings[i], document_id, PyNat(s1.current_chunk),
                         PyNat(s1.current_offset),
                         [source_file |-> file.content, text_index |-> i - 1,
                          text |-> texts[i]])
    IN  [s1 EXCEPT !.current_chunk_vectors = Append(@, vector),
                   !.current_offset = @ + 1]

\* One turn of process_file's loop: passage i (from 1) of the file
ChunkStep(st, file, texts, embeddings, document_id, i) ==
    LET s1 == IF st.current_offset >= MAX_VECTORS_PER_CHUNK
              THEN [chunks |-> Append(st.chunks, st.current_chunk_vectors),
                    current_chunk_vectors |-> <<>>,
                    current_chunk |-> st.current_chunk + 1,
                    current_offset |-> 0]
              ELSE st
        vector == Vector(embeddings[i], document_id, PyNat(s1.current_chunk),
                         PyNat(s1.current_offset),
                         [source_file |-> file.content, text_index |-> i - 1,
                          text |-> texts[i]])
    IN  [s1 EXCEPT !.current_chunk_vectors = Append(@, vector),
                   !.current_offset = @ + 1]

RECURSIVE ChunkLoop(_, _, _, _, _, _)
ChunkLoop(st, file, texts, embeddings, document_id, i) ==
    IF i > Len(texts) THEN st
    ELSE ChunkLoop(ChunkStep(st, file, texts, embeddings, document_id, i),
                   file, texts, embeddings, document_id, i + 1)

RECURSIVE Flatten(_)
Flatten(chunks) == IF chunks = <<>> THEN <<>> ELSE Head(chunks) \o Flatten(Tail(chunks))

\* A wrong ending: the chunk being built is left out
WithoutLastChunk(st) == st.chunks

\* "Add the last chunk if it has vectors"
WithLastChunk(st) ==
    IF st.current_chunk_vectors # <<>>
    THEN Append(st.chunks, st.current_chunk_vectors)
    ELSE st.chunks

\* A wrong ending: the chunks are returned and the index is left alone
ProcessReturnUnindexed(chunks, entries) == [chunks |-> chunks, index |-> entries]

\* index.add_vectors(all_vectors); return chunks
ProcessReturn(chunks, entries) ==
    [chunks |-> chunks, index |-> add_vectors(entries, Flatten(chunks))]

\* process_file(file_obj, filename, index), given the document id drawn:
\* the chunks it returns and the index after its add_vectors
process_file(file, document_id, entries) ==
    ProcessReturn(WithLastChunk(ChunkLoop([chunks |-> <<>>, current_chunk_vectors |-> <<>>,
                                           current_chunk |-> 0, current_offset |-> 0],
                                          file, extract(file), generate(extract(file)),
                                          document_id, 1)),
                  entries)

-----------------------------------------------------------------------------
(* src/src/workflow.py: add_file_to_system *)

RECURSIVE SumLen(_)
SumLen(chunks) == IF chunks = <<>> THEN 0 ELSE Len(Head(chunks)) + SumLen(Tail(chunks))

\* The upload loop, from chunk i on: s3_uploads so far and the store, or the
\* exception that upload_vector_chunk let through.  puts[i] says whether the
\* store accepts the put of the i-th chunk.
RECURSIVE UploadLoop(_, _, _, _, _, _)
UploadLoop(chunks, i, s3_uploads, objs, puts, bucket_name) ==
    IF i > Len(chunks) THEN [raised |-> FALSE, s3_uploads |-> s3_uploads, objects |-> objs]
    ELSE LET chunk == chunks[i]
             chunk_id == IF chunk # <<>> THEN VectorGetChunkId(chunk[1]) ELSE None
             up == upload_vector_chunk(chunk, objs, puts[i], bucket_name, chunk_id)
         IN  IF up.raised THEN [raised |-> TRUE, error |-> up.error, objects |-> up.objects]
             ELSE UploadLoop(chunks, i + 1, Append(s3_uploads, up.result), up.objects,
                             puts, bucket_name)

\* document_id = chunks[0][0].document if chunks and chunks[0] else None
FirstDocument(chunks) ==
    IF chunks # <<>> /\ chunks[1] # <<>> THEN chunks[1][1].pointer.document ELSE None

\* add_file_to_system's return: from the try, or from the except if the
\* upload loop raised
AddFileReturn(chunks, loop) ==
    IF loop.raised
    THEN [document_id |-> None, total_vectors |-> 0, chunks_count |-> 0,
          s3_uploads |-> <<>>, success |-> FALSE, error |-> loop.error]
    ELSE [document_id |-> FirstDocument(chunks), total_vectors |-> SumLen(chunks),
          chunks_count |-> Len(chunks), s3_uploads |-> loop.s3_uploads,
          success |-> \A j \in 1..Len(loop.s3_uploads) : loop.s3_uploads[j].success]

AddFileUploaded(pf, loop) ==
    [index |-> pf.index, objects |-> loop.objects, result |-> AddFileReturn(pf.chunks, loop)]

AddFileProcessed(pf, objs, puts, bucket_name) ==
    AddFileUploaded(pf, UploadLoop(pf.chunks, 1, <<>>, objs, puts, bucket_name))

\* A wrong workflow: no except branch for a file that cannot be read
add_file_unguarded(file, document_id, entries, objs, puts, bucket_name) ==
    AddFileProcessed(process_file(file, document_id, entries), objs, puts, bucket_name)

\* add_file_to_system(file_path, processor, index, bucket_name, s3_client),
\* given the document id process_file draws: its return value, and the index
\* and the store it leaves.  A file with a fault is one that open() does not
\* find or that PdfReader, the first call of process_file, cannot read: the
\* exception reaches the except branch before anything else is done.
add_file_to_system(file, document_id, entries, objs, puts, bucket_name) ==
    IF "fault" \in DOMAIN file
    THEN [index |-> entries, objects |-> objs,
          result |-> AddFileReturn(<<>>, Raise(file.fault))]
    ELSE AddFileProcessed(process_file(file, document_id, entries), objs, puts, bucket_name)

-----------------------------------------------------------------------------
(* src/src/query.py *)

CACHE_TTL_SECONDS == 60 * 60 * 24

\* f"chunk:{cid}"
CacheKey(cid) == <<"chunk:", cid>>

Range(s) == {s[i] : i \in 1..Len(s)}

\* _cache_get_many(cache, chunk_ids): what batch_get raises passes through
_cache_get_many(c, up, chunk_ids) ==
    LET raw == batch_get(c, up, [i \in 1..Len(chunk_ids) |-> CacheKey(chunk_ids[i])])
    IN  IF raw.raised THEN raw
        ELSE [raised |-> FALSE,
              out |-> [cid \in {x \in Range(chunk_ids) : CacheKey(x) \in DOMAIN raw.out} |->
                          raw.out[CacheKey(cid)]]]

\* A wrong write-back: nothing is cached
cache_set_nothing(c, items, ttl) == c

\* A wrong write-back: the entries are kept for an hour less than asked
cache_set_short(c, items, ttl) ==
    batch_set(c, [key \in {CacheKey(cid) : cid \in DOMAIN items} |-> items[key[2]]], ttl - 3600)

\* _cache_set_many(cache, items, ttl)
_cache_set_many(c, items, ttl) ==
    batch_set(c, [key \in {CacheKey(cid) : cid \in DOMAIN items} |-> items[key[2]]], ttl)

\* list.index(x): the first position of x, from 0
ListIndex(s, x) == (CHOOSE i \in 1..Len(s) : s[i] = x /\ \A j \in 1..(i - 1) : s[j] # x) - 1

RECURSIVE SelectIn(_, _)
SelectIn(s, S) ==
    IF s = <<>> THEN <<>>
    ELSE IF Head(s) \in S THEN <<Head(s)>> \o SelectIn(Tail(s), S)
    ELSE SelectIn(Tail(s), S)

\* The results one chunk group pushes: for each of its ids whose offset is a
\* row of the chunk, (original_position, result)
RECURSIVE PushGroup(_, _, _, _)
PushGroup(ids, chunk_vectors, vector_ids, distances) ==
    IF ids = <<>> THEN <<>>
    ELSE LET vector_index == Head(ids)
             p == decode(vector_index)
             rest == PushGroup(Tail(ids), chunk_vectors, vector_ids, distances)
         IN  IF NatOf(p.offset) < Len(chunk_vectors.rows)
             THEN LET original_position == ListIndex(vector_ids, vector_index)
                      distance == distances[original_position + 1]
                  IN  <<[position |-> original_position,
                         result |-> [vector_values |-> chunk_vectors.rows[NatOf(p.offset) + 1],
                                     distance |-> distance,
                                     document_id |-> p.document,
                                     chunk_id |-> generate_chunk_id(p.document, p.chunk),
                                     offset |-> p.offset,
                                     metadata |-> [vector_index |-> vector_index]]]>> \o rest
             ELSE rest

RECURSIVE PushAll(_, _, _, _)
PushAll(chunk_groups, chunks_map, vector_ids, distances) ==
    IF chunk_groups = <<>> THEN <<>>
    ELSE LET g == Head(chunk_groups)
             rest == PushAll(Tail(chunk_groups), chunks_map, vector_ids, distances)
         IN  IF g.chunk_id \in DOMAIN chunks_map
             THEN PushGroup(g.ids, chunks_map[g.chunk_id], vector_ids, distances) \o rest
             ELSE rest

\* sorted(result_heap, key=lambda x: x[1]): by original position.  Entries at
\* the same position are equal, so their order in the heap does not show.
RECURSIVE SortedByPosition(_, _, _)
SortedByPosition(heap, position, last) ==
    IF position > last THEN <<>>
    ELSE LET here == {i \in 1..Len(heap) : heap[i].position = position}
             one == IF here = {} THEN <<>>
                    ELSE [j \in 1..Cardinality(here) |-> heap[CHOOSE i \in here : TRUE].result]
         IN  one \o SortedByPosition(heap, position + 1, last)

\* What query_system returns on success and from its except branch
QuerySuccess(query_text, query_embedding, ordered_results) ==
    [query_text |-> query_text, query_embedding |-> query_embedding,
     search_results |-> ordered_results, total_found |-> Len(ordered_results),
     success |-> TRUE]

QueryFailure(query_text, error) ==
    [query_text |-> query_text, query_embedding |-> None, search_results |-> <<>>,
     total_found |-> 0, success |-> FALSE, error |-> error]

\* What a call did on the way: the search's answer, the chunk ids its ids
\* map to, those it resolved, those it asked the store for
QueryTrace(found, wanted, resolved, gets) ==
    [search |-> found, wanted |-> wanted, resolved |-> resolved, gets |-> gets]

\* chunks_map after both updates
ChunksMap(cached_map, new_items) ==
    [cid \in DOMAIN cached_map \cup DOMAIN new_items |->
        IF cid \in DOMAIN new_items THEN new_items[cid] ELSE cached_map[cid]]

\* A wrong collection: every id of the search gets a result, whether or not
\* its chunk is in chunks_map
QueryCollectAll(query_text, query_embedding, found, chunk_groups, chunks_map) ==
    QuerySuccess(query_text, query_embedding,
                 [i \in 1..Len(found.vector_ids) |->
                     [vector_values |-> <<>>, distance |-> found.distances[i],
                      document_id |-> decode(found.vector_ids[i]).document,
                      chunk_id |-> generate_chunk_id(decode(found.vector_ids[i]).document,
                                                     decode(found.vector_ids[i]).chunk),
                      offset |-> decode(found.vector_ids[i]).offset,
                      metadata |-> [vector_index |-> found.vector_ids[i]]]])

\* query_system from the loop over chunk_groups to its return
QueryCollect(query_text, query_embedding, found, chunk_groups, chunks_map) ==
    QuerySuccess(query_text, query_embedding,
                 SortedByPosition(PushAll(chunk_groups, chunks_map,
                                          found.vector_ids, found.distances),
                                  0, Len(found.vector_ids) - 1))

\* query_system once the missing chunks have been asked of the store
QueryFetched(query_text, query_embedding, found, chunk_groups, chunk_ids, cached_map, missing_chunk_ids, new_items, c) ==
    [result |-> QueryCollect(query_text, query_embedding, found, chunk_groups,
                             ChunksMap(cached_map, new_items)),
     cache |-> IF missing_chunk_ids = <<>> THEN c
               ELSE _cache_set_many(c, new_items, CACHE_TTL_SECONDS),
     trace |-> QueryTrace(found, Range(chunk_ids),
                          DOMAIN cached_map \cup DOMAIN new_items, missing_chunk_ids)]

\* download_results.get("chunks", {}) of the missing chunks, if any is missing
NewItems(missing_chunk_ids, objs, bucket_name) ==
    IF missing_chunk_ids = <<>> THEN EmptyMap
    ELSE download_multiple_vector_chunks(missing_chunk_ids, objs, bucket_name).chunks

\* query_system once the cache has answered
QueryCached(query_text, query_embedding, found, chunk_groups, chunk_ids, cached_map, missing_chunk_ids, objs, c, bucket_name) ==
    QueryFetched(query_text, query_embedding, found, chunk_groups, chunk_ids,
                 cached_map, missing_chunk_ids,
                 NewItems(missing_chunk_ids, objs, bucket_name), c)

\* query_system once the ids are grouped by chunk
QueryGrouped(query_text, query_embedding, found, chunk_groups, chunk_ids, cached_map, objs, c, bucket_name) ==
    QueryCached(query_text, query_embedding, found, chunk_groups, chunk_ids, cached_map,
                SelectIn(chunk_ids, Range(chunk_ids) \ DOMAIN cached_map),
                objs, c, bucket_name)

ChunkIdsOf(chunk_groups) == [i \in 1..Len(chunk_groups) |-> chunk_groups[i].chunk_id]

\* query_system once _cache_get_many has returned or raised: what it raises
\* is caught by the except of query_system alone
QueryLookedUp(query_text, query_embedding, found, chunk_groups, chunk_ids, got, objs, c, bucket_name) ==
    IF got.raised
    THEN [result |-> QueryFailure(query_text, got.error), cache |-> c,
          trace |-> QueryTrace(found, Range(chunk_ids), {}, <<>>)]
    ELSE QueryGrouped(query_text, query_embedding, found, chunk_groups, chunk_ids,
                      got.out, objs, c, bucket_name)

\* query_system once the index has answered
QuerySearched(query_text, query_embedding, found, chunk_groups, objs, c, up, bucket_name) ==
    IF found.raised
    THEN [result |-> QueryFailure(query_text, found.error), cache |-> c,
          trace |-> QueryTrace(found, {}, {}, <<>>)]
    ELSE IF Len(found.vector_ids) = 0
    THEN [result |-> QuerySuccess(query_text, query_embedding, <<>>), cache |-> c,
          trace |-> QueryTrace(found, {}, {}, <<>>)]
    ELSE QueryLookedUp(query_text, query_embedding, found, chunk_groups,
                       ChunkIdsOf(chunk_groups),
                       _cache_get_many(c, up, ChunkIdsOf(chunk_groups)),
                       objs, c, bucket_name)

GroupsOf(found) == IF found.raised THEN <<>> ELSE _group_vectors_by_chunk(found.vector_ids)

QueryEmbedded(query_text, query_embedding, found, objs, c, up, bucket_name) ==
    QuerySearched(query_text, query_embedding, found, GroupsOf(found), objs, c, up,
                  bucket_name)

\* query_system(query_text, index, bucket_name, embedding_generator, k,
\* threshold, s3_client, cache): its return value, the cache it leaves, and
\* the trace of the call.  c is the content of the cache and up whether its
\* client answers.
query_system(query_text, entries, order, bucket_name, k, threshold, objs, c, up) ==
    QueryEmbedded(query_text, generate(<<query_text>>)[1],
                  search(entries, order, generate(<<query_text>>)[1], k, threshold),
                  objs, c, up, bucket_name)

-----------------------------------------------------------------------------
(* The system: one process that ingests files, uploads chunks, deletes      *)
(* chunks and queries, one call after another, on one index, one store and  *)
(* one cache.                                                               *)

Bucket == "memvec-bucket"

MaxIngests == 2        \* process_file calls in a run
MaxPassages == 3       \* passages of a file the system ingests
MaxFilePassages == 5   \* passages of a file given to process_file alone
MaxK == 2              \* the k of a query

MaxThreads == 2        \* threads that share the index, the cache and the store

Threads == 1..MaxThreads

\* A thread that is in no call
Idle == [pc |-> "idle"]

\* The i-th file ingested has its own content
File(n) == [content |-> Len(minted) + 1, n |-> n]

\* The query text: the third passage of the first file
QuerySample == {<<1, 2>>}

ThresholdSample == {None, [float |-> 2]}

\* The chunk ids of the objects in the store
StoredChunkIds == {key[3][2] : key \in DOMAIN objects}

ResetQuery == qcall' = NoCall /\ qres' = NoCall /\ qtrace' = NoCall /\ prev' = NoCall

InitSys ==
    /\ index = <<>>
    /\ scan \in {"forward", "reverse"}
    /\ objects = EmptyMap
    /\ cache = EmptyMap
    /\ minted = <<>>
    /\ wfile = None
    /\ wchunks = <<>>
    /\ wres = NoCall
    /\ qcall = NoCall /\ qres = NoCall /\ qtrace = NoCall /\ prev = NoCall
    /\ calls = [t \in Threads |-> Idle]

\* What the store does with the puts of one call, chunk by chunk: it accepts
\* them all, rejects them all, rejects the first only, or accepts the first
\* only
PutSample ==
    {[i \in 1..MaxPassages |-> TRUE], [i \in 1..MaxPassages |-> FALSE],
     [i \in 1..MaxPassages |-> i # 1], [i \in 1..MaxPassages |-> i = 1]}

\* The chunk ids of the objects in a store
ChunkIdsIn(objs) == {key[3][2] : key \in DOMAIN objs}

AddFileDone(file, puts, r) ==
    /\ index' = r.index
    /\ objects' = r.objects
    /\ wres' = [file |-> file, accepts |-> (\A i \in DOMAIN puts : puts[i]),
                puts |-> puts, result |-> r.result,
                stored |-> ChunkIdsIn(r.objects)]

\* add_file_to_system(file_path, processor, index, bucket, s3_client)
AddFile ==
    \E n \in 1..MaxPassages, d \in DocSample, puts \in PutSample :
        /\ wchunks = <<>>
        /\ Len(minted) < MaxIngests
        /\ AddFileDone(File(n), puts,
                       add_file_to_system(File(n), d, index, objects, puts, Bucket))
        /\ minted' = Append(minted, [file |-> File(n), document |-> d])
        /\ wfile' = File(n)
        /\ ResetQuery
        /\ UNCHANGED <<scan, cache, wchunks, ptrVars, calls>>

\* add_file_to_system on a path that is not there (the call of
\* test_add_file_to_system_error_handling) and on a file that is no PDF
AddBadFile ==
    \E fault \in {"FileNotFoundError", "PdfReadError"} :
        /\ wchunks = <<>>
        /\ AddFileDone([content |-> 0, n |-> 0, fault |-> fault], [i \in 1..MaxPassages |-> TRUE],
                       add_file_to_system([content |-> 0, n |-> 0, fault |-> fault], PyZero,
                                          index, objects, [i \in 1..MaxPassages |-> TRUE], Bucket))
        /\ wfile' = [content |-> 0, n |-> 0, fault |-> fault]
        /\ ResetQuery
        /\ UNCHANGED <<scan, cache, minted, wchunks, ptrVars, calls>>

ProcessFileDone(pf) == index' = pf.index /\ wchunks' = pf.chunks

\* chunks = processor.process_file(file_obj, filename, index), called by
\* itself on a file of at most N passages
ProcessFileOf(N) ==
    \E n \in 1..N, d \in DocSample :
        /\ wchunks = <<>>
        /\ Len(minted) < MaxIngests
        /\ ProcessFileDone(process_file(File(n), d, index))
        /\ minted' = Append(minted, [file |-> File(n), document |-> d])
        /\ wfile' = File(n)
        /\ wres' = NoCall
        /\ ResetQuery
        /\ UNCHANGED <<scan, objects, cache, ptrVars, calls>>

ProcessFile == ProcessFileOf(MaxPassages)

ProcessLongFile == ProcessFileOf(MaxFilePassages)

\* upload_vector_chunk([v.to_numpy() for v in chunk], s3_client, bucket,
\* chunk[0].get_chunk_id()) for the next chunk process_file returned
UploadNext ==
    \E putOK \in BOOLEAN :
        /\ wchunks # <<>>
        /\ LET chunk == Head(wchunks)
               up == upload_vector_chunk([i \in 1..Len(chunk) |-> to_numpy(chunk[i])],
                                         objects, putOK, Bucket, VectorGetChunkId(chunk[1]))
           IN  objects' = up.objects
        /\ wchunks' = Tail(wchunks)
        /\ ResetQuery
        /\ UNCHANGED <<index, scan, cache, minted, wfile, wres, ptrVars, calls>>

\* The caller lets go of the chunks it holds
Release ==
    /\ wchunks # <<>>
    /\ wchunks' = <<>>
    /\ UNCHANGED <<index, scan, objects, cache, minted, wfile, wres, queryVars, ptrVars, calls>>

\* delete_vector_chunk(chunk_id, bucket, s3_client) of a stored chunk
DeleteChunk ==
    \E chunk_id \in StoredChunkIds :
        /\ wchunks = <<>>
        /\ objects' = delete_vector_chunk(chunk_id, objects, Bucket).objects
        /\ UNCHANGED <<index, scan, cache, minted, wfile, wchunks, wres, queryVars, ptrVars, calls>>

QueryDone(call, r) ==
    /\ qcall' = call
    /\ qres' = r.result
    /\ qtrace' = r.trace
    /\ cache' = r.cache
    /\ prev' = IF qcall = call THEN [res |-> qres, trace |-> qtrace] ELSE NoCall

\* query_system(query_text, index, bucket, embedding_generator, k, threshold,
\* s3_client, cache), with a cache whose client answers or does not
QueryOf(up) ==
    \E query_text \in QuerySample, k \in 1..MaxK, threshold \in ThresholdSample :
        /\ wchunks = <<>>
        /\ QueryDone([query_text |-> query_text, k |-> k, threshold |-> threshold,
                      cache_up |-> up],
                     query_system(query_text, index, scan, Bucket, k, threshold,
                                  objects, cache, up))
        /\ UNCHANGED <<index, scan, objects, minted, wfile, wchunks, wres, ptrVars, calls>>

Query == QueryOf(TRUE)

QueryCacheDown == QueryOf(FALSE)

\* What is left of a cache entry whose bytes pickle.loads rejects
Garbage == [bytes |-> "garbage"]

\* The cache is a server of its own: an entry comes to hold bytes that are
\* no pickle (truncated, or written by another client)
CorruptEntry ==
    \E key \in DOMAIN cache :
        /\ wchunks = <<>>
        /\ cache[key].data # Garbage
        /\ cache' = [cache EXCEPT ![key].data = Garbage]
        /\ ResetQuery
        /\ UNCHANGED <<index, scan, objects, minted, wfile, wchunks, wres, ptrVars, calls>>

-----------------------------------------------------------------------------
(* Threads: process_file and query_system called from several threads on    *)
(* one HNSWIndex, one cache and one store.  Nothing in HNSWIndex,           *)
(* FileProcessor or query_system takes a lock; a thread can be overtaken    *)
(* wherever it leaves the interpreter: inside the faiss calls add_with_ids, *)
(* search and range_search, and at the cache's and the store's I/O.         *)

\* What the threads' steps leave alone besides the variables they name
harnessVars == <<pa, pb, pret, scan, wfile, wchunks, wres, qcall, qres, qtrace, prev>>

Adding(t) == calls[t].pc = "add_vectors"

Searching(t) == calls[t].pc = "search"

AllIdle == \A t \in Threads : calls[t] = Idle

\* process_file up to its call of index.add_vectors(all_vectors), with the
\* chunks it has built by then: the thread is inside add_with_ids.  Two
\* writers inside it at once race.
AddEnter(t) ==
    \E n \in 1..MaxPassages, d \in DocSample :
        /\ calls[t] = Idle
        /\ Len(minted) < MaxIngests
        /\ calls' = [u \in Threads |->
                        IF u = t
                        THEN [pc |-> "add_vectors",
                              vectors |-> Flatten(process_file(File(n), d, <<>>).chunks),
                              raced |-> \E v \in Threads \ {t} : Adding(v)]
                        ELSE IF Adding(u) THEN [calls[u] EXCEPT !.raced = TRUE]
                        ELSE calls[u]]
        /\ minted' = Append(minted, [file |-> File(n), document |-> d])
        /\ UNCHANGED <<index, objects, cache, harnessVars>>

\* index.add_vectors returns: the entries are in the index; those of a
\* writer that raced with another may be lost
AddReturn(t) ==
    /\ Adding(t)
    /\ \/ index' = add_vectors(index, calls[t].vectors)
       \/ calls[t].raced /\ index' = index
    /\ calls' = [calls EXCEPT ![t] = Idle]
    /\ UNCHANGED <<objects, cache, minted, harnessVars>>

\* What a search may see of the index: the entries added, and any part of
\* the entries a writer is adding at that moment
Observable ==
    {index} \cup UNION {{add_vectors(index, SubSeq(calls[u].vectors, 1, j)) :
                             j \in 1..Len(calls[u].vectors)} :
                         u \in {v \in Threads : Adding(v)}}

\* A query that has returned
Done(c, result) == [pc |-> "done", call |-> c, result |-> result]

\* query_system up to its call of index.search
QueryEnter(t) ==
    \E query_text \in QuerySample, k \in 1..MaxK, threshold \in ThresholdSample :
        /\ calls[t] = Idle
        /\ wchunks = <<>>
        /\ calls' = [calls EXCEPT ![t] =
                        [pc |-> "search",
                         call |-> [query_text |-> query_text, k |-> k,
                                   threshold |-> threshold, cache0 |-> cache]]]
        /\ UNCHANGED <<index, objects, cache, minted, harnessVars>>

QueryAfterSearch(c, found) ==
    IF found.raised THEN Done(c, QueryFailure(c.query_text, found.error))
    ELSE IF Len(found.vector_ids) = 0
    THEN Done(c, QuerySuccess(c.query_text, generate(<<c.query_text>>)[1], <<>>))
    ELSE [pc |-> "cache_get", call |-> c, found |-> found]

\* index.search returns, and query_system goes on to _cache_get_many
QuerySearchReturn(t) ==
    \E entries \in Observable :
        /\ Searching(t)
        /\ calls' = [calls EXCEPT ![t] =
                        QueryAfterSearch(calls[t].call,
                                         search(entries, scan,
                                                generate(<<calls[t].call.query_text>>)[1],
                                                calls[t].call.k, calls[t].call.threshold))]
        /\ UNCHANGED <<index, objects, cache, minted, harnessVars>>

QueryAfterCacheGet(c, found, chunk_ids, got, missing_chunk_ids) ==
    IF got.raised THEN Done(c, QueryFailure(c.query_text, got.error))
    ELSE IF missing_chunk_ids = <<>>
    THEN Done(c, QueryCollect(c.query_text, generate(<<c.query_text>>)[1], found,
                              GroupsOf(found), got.out))
    ELSE [pc |-> "download", call |-> c, found |-> found, cached_map |-> got.out,
          missing_chunk_ids |-> missing_chunk_ids]

QueryCacheGot(c, found, chunk_ids, got) ==
    QueryAfterCacheGet(c, found, chunk_ids, got,
                       IF got.raised THEN <<>>
                       ELSE SelectIn(chunk_ids, Range(chunk_ids) \ DOMAIN got.out))

\* _cache_get_many returns, and query_system goes on to the store if a
\* chunk is missing and to its return if none is
QueryCacheGet(t) ==
    /\ calls[t].pc = "cache_get"
    /\ calls' = [calls EXCEPT ![t] =
                    QueryCacheGot(calls[t].call, calls[t].found,
                                  ChunkIdsOf(GroupsOf(calls[t].found)),
                                  _cache_get_many(cache, TRUE,
                                                  ChunkIdsOf(GroupsOf(calls[t].found))))]
    /\ UNCHANGED <<index, objects, cache, minted, harnessVars>>

\* download_multiple_vector_chunks returns
QueryDownload(t) ==
    /\ calls[t].pc = "download"
    /\ calls' = [calls EXCEPT ![t] =
                    [pc |-> "cache_set", call |-> calls[t].call, found |-> calls[t].found,
                     cached_map |-> calls[t].cached_map,
                     new_items |-> NewItems(calls[t].missing_chunk_ids, objects, Bucket)]]
    /\ UNCHANGED <<index, objects, cache, minted, harnessVars>>

\* _cache_set_many, the loop over chunk_groups and the return
QueryCacheSet(t) ==
    /\ calls[t].pc = "cache_set"
    /\ cache' = _cache_set_many(cache, calls[t].new_items, CACHE_TTL_SECONDS)
    /\ calls' = [calls EXCEPT ![t] =
                    Done(calls[t].call,
                         QueryCollect(calls[t].call.query_text,
                                      generate(<<calls[t].call.query_text>>)[1],
                                      calls[t].found, GroupsOf(calls[t].found),
                                      ChunksMap(calls[t].cached_map, calls[t].new_items)))]
    /\ UNCHANGED <<index, objects, minted, harnessVars>>

\* The caller takes the result
QueryLeave(t) ==
    /\ calls[t].pc = "done"
    /\ calls' = [calls EXCEPT ![t] = Idle]
    /\ qres' = calls[t].result
    /\ UNCHANGED <<index, objects, cache, minted, pa, pb, pret, scan, wfile, wchunks, wres, qcall, qtrace, prev>>

QueryStep(t) ==
    \/ QueryEnter(t)
    \/ QuerySearchReturn(t)
    \/ QueryCacheGet(t)
    \/ QueryDownload(t)
    \/ QueryCacheSet(t)
    \/ QueryLeave(t)

\* Ingests and queries from several threads
NextWriters == \E t \in Threads : AddEnter(t) \/ AddReturn(t) \/ QueryStep(t)

\* One document is ingested and its chunks uploaded or deleted while no
\* query runs; the queries then run together
NextReaders ==
    \/ AllIdle /\ minted = <<>> /\ ProcessFile
    \/ AllIdle /\ UploadNext
    \/ AllIdle /\ DeleteChunk
    \/ \E t \in Threads : QueryStep(t)

-----------------------------------------------------------------------------
(* The index by itself: the calls of src/tests/test_index.py on one          *)
(* HNSWIndex, and queries on it                                              *)

MaxEntries == 3        \* vectors in the index used by itself

\* HNSWIndex(dimension=...): the dimension of the embedder's vectors
Dimension == Len(generate_one(<<1, 0>>))

\* Vector(values=[i, 0], index=100 * i)
IndexVector(i) == VectorFromIndex(<<i, 0>>, PyNat(100 * i), EmptyMap)

VectorListSample == {<<>>, <<IndexVector(1)>>, <<IndexVector(2), IndexVector(3)>>}

EmbeddingSample == {<<1, 0>>, <<3, 0>>}

QueryVectorsSample ==
    {<<>>, <<Vector(<<3, 0>>, PyZero, PyZero, PyZero, EmptyMap)>>,
     <<Vector(<<1, 0>>, PyZero, PyZero, PyZero, EmptyMap),
       Vector(<<3, 0>>, PyZero, PyZero, PyZero, EmptyMap)>>}

\* index.add_vectors(vectors)
IndexAdd ==
    \E vectors \in VectorListSample :
        /\ Len(index) + Len(vectors) <= MaxEntries
        /\ index' = add_vectors(index, vectors)
        /\ pret' = [op |-> "add_vectors", n |-> Len(vectors)]
        /\ UNCHANGED <<pa, pb, scan, objects, cache, minted, wfile, wchunks, wres, queryVars, calls>>

\* index.search(query_embedding, k, threshold)
IndexSearch ==
    \E query_embedding \in EmbeddingSample, k \in 1..MaxK, threshold \in ThresholdSample :
        /\ pret' = [op |-> "search", query_embedding |-> query_embedding, k |-> k,
                    threshold |-> threshold,
                    result |-> search(index, scan, query_embedding, k, threshold)]
        /\ UNCHANGED <<pa, pb, sysVars>>

\* index.multi_search(query_vectors, k, threshold)
IndexMultiSearch ==
    \E query_vectors \in QueryVectorsSample, k \in 1..MaxK, threshold \in ThresholdSample :
        /\ pret' = [op |-> "multi_search", query_vectors |-> query_vectors, k |-> k,
                    threshold |-> threshold,
                    result |-> multi_search(index, scan, query_vectors, k, threshold)]
        /\ UNCHANGED <<pa, pb, sysVars>>

\* index.get_info() and index.size()
IndexGetInfo ==
    /\ pret' = [op |-> "get_info", info |-> get_info(index, Dimension, DEFAULT_HNSW_M),
                size |-> size(index)]
    /\ UNCHANGED <<pa, pb, sysVars>>

NextIndex == IndexAdd \/ IndexSearch \/ IndexMultiSearch \/ IndexGetInfo \/ Query

-----------------------------------------------------------------------------
(* The chunk store by itself: the calls of src/tests/test_chunk_upload.py    *)
(* and src/tests/test_chunk_delete.py on one MockS3Client                    *)

\* np.array(values) and np.array(values, dtype=np.float32)
Float64Array(values) == [dtype |-> "float64", data |-> values]
Float32Array(values) == [dtype |-> "float32", data |-> Float32Row(values)]

\* 2^24 + 1: a float64 that float32 does not hold
Inexact == 2^24 + 1

\* Lists of arrays to upload: none, one row, two rows, and rows of float64
\* of which one value is not a float32
ArrayListSample ==
    {<<>>,
     <<Float32Array(<<1, 0>>)>>,
     <<Float32Array(<<1, 0>>), Float32Array(<<0, 1>>)>>,
     <<Float64Array(<<Inexact, 0>>), Float64Array(<<0, 1>>)>>}

\* Two chunks of one document
StoreChunkSample ==
    {generate_chunk_id(PyNat(12345), PyZero), generate_chunk_id(PyNat(12345), PyOne)}

StoreUploadDone(vectors, chunk_id, outcomes, up) ==
    /\ objects' = up.objects
    /\ pret' = [op |-> "upload", vectors |-> vectors, chunk_id |-> chunk_id,
                accepts |-> (Head(outcomes) = "ok"), outcomes |-> outcomes,
                put_calls |-> up.put_calls, raised |-> up.raised,
                result |-> IF up.raised THEN Raise(up.error) ELSE up.result]

\* upload_vector_chunk(vectors, s3_client, bucket, chunk_id) on a client
\* whose put_object calls, one after another, would end as outcomes says: a
\* put that is accepted, one that times out once and is accepted when made
\* again, and one that is denied
StoreUpload ==
    \E vectors \in ArrayListSample, chunk_id \in StoreChunkSample, outcomes \in {<<"ok">>, <<"timeout", "ok">>, <<"AccessDenied">>} :
        /\ StoreUploadDone(vectors, chunk_id, outcomes,
                           upload_vector_chunk(vectors, objects, Head(outcomes) = "ok",
                                               Bucket, chunk_id))
        /\ UNCHANGED <<pa, pb, index, scan, cache, minted, wfile, wchunks, wres, queryVars, calls>>

\* download_vector_chunk(chunk_id, s3_client, bucket)
StoreDownload ==
    \E chunk_id \in StoreChunkSample :
        /\ pret' = [op |-> "download", chunk_id |-> chunk_id,
                    result |-> download_vector_chunk(chunk_id, objects, Bucket)]
        /\ UNCHANGED <<pa, pb, sysVars>>

\* delete_vector_chunk(chunk_id, bucket, s3_client), of a chunk that is in
\* the store or is not
StoreDelete ==
    \E chunk_id \in StoreChunkSample :
        /\ objects' = delete_vector_chunk(chunk_id, objects, Bucket).objects
        /\ pret' = [op |-> "delete", chunk_id |-> chunk_id,
                    existed |-> (chunk_id \in StoredChunkIds),
                    result |-> delete_vector_chunk(chunk_id, objects, Bucket).result]
        /\ UNCHANGED <<pa, pb, index, scan, cache, minted, wfile, wchunks, wres, queryVars, calls>>

NextStore == StoreUpload \/ StoreDownload \/ StoreDelete

-----------------------------------------------------------------------------
(* The cache by itself: the calls of src/tests/test_cache.py and             *)
(* src/tests/test_cache_layer.py on one CacheLayer.                          *)

CacheKeySample == {CacheKey(cid) : cid \in StoreChunkSample}

CacheValueSample == {Float32Array(<<1, 0>>), Float32Array(<<0, 1>>)}

\* cache.set(key, value) and cache.set(key, value, ttl=60)
CacheSet ==
    \E key \in CacheKeySample, value \in CacheValueSample, ttl \in {None, [seconds |-> 60]} :
        /\ cache' = set(cache, key, value, ttl)
        /\ pret' = [op |-> "set", key |-> key, value |-> value]
        /\ UNCHANGED <<pa, pb, index, scan, objects, minted, wfile, wchunks, wres, queryVars, calls>>

\* cache.get(key) and cache.exists(key)
CacheGet ==
    \E key \in CacheKeySample :
        /\ pret' = [op |-> "get", key |-> key, result |-> get(cache, key),
                    exists |-> exists(cache, key)]
        /\ UNCHANGED <<pa, pb, sysVars>>

\* cache.delete(key)
CacheDelete ==
    \E key \in CacheKeySample :
        /\ cache' = delete(cache, key).cache
        /\ pret' = [op |-> "delete", key |-> key, result |-> delete(cache, key).result]
        /\ UNCHANGED <<pa, pb, index, scan, objects, minted, wfile, wchunks, wres, queryVars, calls>>

\* cache.clear()
CacheClear ==
    /\ cache' = clear(cache)
    /\ pret' = [op |-> "clear"]
    /\ UNCHANGED <<pa, pb, index, scan, objects, minted, wfile, wchunks, wres, queryVars, calls>>

\* cache.batch_get(keys), of no key, of keys that may be missing, of a key
\* given twice
CacheBatchGet ==
    \E k1 \in CacheKeySample, k2 \in CacheKeySample :
        \E keys \in {<<>>, <<k1>>, <<k1, k2>>} :
            /\ pret' = [op |-> "batch_get", keys |-> keys,
                        result |-> batch_get(cache, TRUE, keys)]
            /\ UNCHANGED <<pa, pb, sysVars>>

\* cache.batch_set(items, ttl=60), items a dict over any of the keys
CacheBatchSet ==
    \E K \in SUBSET CacheKeySample :
        \E items \in [K -> CacheValueSample] :
            /\ cache' = batch_set(cache, items, [seconds |-> 60])
            /\ pret' = [op |-> "batch_set", items |-> items]
            /\ UNCHANGED <<pa, pb, index, scan, objects, minted, wfile, wchunks, wres, queryVars, calls>>

NextCache == CacheSet \/ CacheGet \/ CacheDelete \/ CacheClear \/ CacheBatchGet \/ CacheBatchSet

-----------------------------------------------------------------------------
(* The codec harness: every call of the codec on sampled in-range fields *)

DocumentSample == {PyZero, PyNat(12345), MAX_DOCUMENT}
ChunkSample == {PyZero, PyNat(67), MAX_CHUNK}
OffsetSample == {PyZero, PyNat(10), MAX_OFFSET}

TripleSample == [document : DocumentSample, chunk : ChunkSample, offset : OffsetSample]

CallEncode ==
    /\ pret' = [op |-> "encode", id |-> encode(pa.document, pa.chunk, pa.offset)]
    /\ UNCHANGED <<pa, pb, sysVars>>

CallDecode ==
    /\ pret.op = "encode"
    /\ pret' = [op |-> "decode", id |-> pret.id, triple |-> decode(pret.id)]
    /\ UNCHANGED <<pa, pb, sysVars>>

CallChunkId ==
    /\ pret' = [op |-> "chunk_id",
                a |-> generate_chunk_id(pa.document, pa.chunk),
                b |-> generate_chunk_id(pb.document, pb.chunk),
                back |-> decode_chunk_id(generate_chunk_id(pa.document, pa.chunk)),
                vec |-> VectorGetChunkId(Vector(<<>>, pa.document, pa.chunk, pa.offset, <<>>))]
    /\ UNCHANGED <<pa, pb, sysVars>>

CallGroup ==
    /\ pret' = [op |-> "group",
                groups |-> _group_vectors_by_chunk(
                               <<encode(pa.document, pa.chunk, pa.offset),
                                 encode(pb.document, pb.chunk, pb.offset)>>)]
    /\ UNCHANGED <<pa, pb, sysVars>>

\* Raw ids of [0, 2^63): the ends of the range, the bits on either side of
\* each field boundary, and an id with all three fields set
IdSample ==
    {PyZero, [neg |-> FALSE, bits |-> 0..62], [neg |-> FALSE, bits |-> {62}],
     [neg |-> FALSE, bits |-> {15}], [neg |-> FALSE, bits |-> {16}],
     [neg |-> FALSE, bits |-> {35}], [neg |-> FALSE, bits |-> {36}],
     encode(PyNat(12345), PyNat(67), PyNat(10))}

\* Pointer.decode, Pointer.encode, Pointer.from_index and Vector(values,
\* index=) on a raw id
CallFromIndex ==
    \E id \in IdSample :
        /\ pret' = [op |-> "from_index", id |-> id,
                    triple |-> decode(id),
                    again |-> encode(decode(id).document, decode(id).chunk,
                                     decode(id).offset),
                    pointer |-> from_index(id),
                    vector |-> VectorFromIndex(<<1, 0>>, id, EmptyMap)]
        /\ UNCHANGED <<pa, pb, sysVars>>

\* Triples with one field just past its range or negative, and ids outside
\* [0, 2^63)
MalformedTriples ==
    LET zero == [document |-> PyZero, chunk |-> PyZero, offset |-> PyZero]
        bad(f, w) == {[zero EXCEPT ![f] = v] : v \in {[neg |-> FALSE, bits |-> {w}], PyMinusOne}}
    IN  bad("document", DOCUMENT_BITS) \cup bad("chunk", CHUNK_BITS) \cup bad("offset", OFFSET_BITS)

MalformedIds == {PyMinusOne, [neg |-> FALSE, bits |-> {63}]}

\* Pointer.encode, Pointer(...) and Pointer.decode on malformed input
CallMalformed ==
    \E t \in MalformedTriples, id \in MalformedIds :
        /\ pret' = [op |-> "malformed", triple |-> t, id |-> id,
                    encoded |-> encode(t.document, t.chunk, t.offset),
                    pointer |-> Pointer(t.document, t.chunk, t.offset),
                    decoded |-> decode(id)]
        /\ UNCHANGED <<pa, pb, sysVars>>

InitPtr == pa \in TripleSample /\ pb \in TripleSample /\ pret = NoCall /\ InitSys

NextPtr == CallEncode \/ CallDecode \/ CallChunkId \/ CallGroup \/ CallFromIndex \/ CallMalformed

SpecPtr == InitPtr /\ [][NextPtr]_vars

-----------------------------------------------------------------------------
(* The specifications of the system *)

ZeroTriple == [document |-> PyZero, chunk |-> PyZero, offset |-> PyZero]

Init == pa = ZeroTriple /\ pb = ZeroTriple /\ pret = NoCall /\ InitSys

Next == AddFile \/ ProcessFile \/ UploadNext \/ DeleteChunk \/ Query

Spec == Init /\ [][Next]_vars

\* The system with a cache that fails: no answer, or an undecodable entry
NextFault == ProcessFile \/ UploadNext \/ Query \/ QueryCacheDown \/ CorruptEntry

SpecFault == Init /\ [][NextFault]_vars

\* Threads that ingest and query
SpecWriters == Init /\ [][NextWriters]_vars

\* Threads that query a populated system
SpecReaders == Init /\ [][NextReaders]_vars

\* Files that cannot be read, given to a system that holds vectors and chunks
NextBadFile == ProcessFile \/ UploadNext \/ AddBadFile

SpecBadFile == Init /\ [][NextBadFile]_vars

\* One CacheLayer used by itself
SpecCache == Init /\ [][NextCache]_vars

\* One HNSWIndex used by itself
SpecIndex == Init /\ [][NextIndex]_vars

\* One chunk store used by itself
SpecStore == Init /\ [][NextStore]_vars

\* process_file alone, on longer files
NextFile == ProcessLongFile \/ Release

SpecFile == Init /\ [][NextFile]_vars

-----------------------------------------------------------------------------
(* The claims *)

IndexIds == {index[i].id : i \in 1..Len(index)}

\* C1: for every in-range (document, chunk, offset), decode(encode(document,
\* chunk, offset)) is exactly (document, chunk, offset), and the encoded id
\* lies in [0, 2^63).
C1_EncodeDecodeRoundTrip ==
    /\ pret.op = "encode" => InBits(pret.id, 63)
    /\ pret.op = "decode" => pret.triple = pa /\ InBits(pret.id, 63)

\* The round trip of the largest triple
C1_Witness ==
    /\ pret.op = "decode"
    /\ pa = [document |-> MAX_DOCUMENT, chunk |-> MAX_CHUNK, offset |-> MAX_OFFSET]
    /\ pret.id = [neg |-> FALSE, bits |-> 0..62]

\* The sizes ceil(n / MAX_VECTORS_PER_CHUNK) chunks of n vectors must have
ExpectedSize(n, j) ==
    IF j * MAX_VECTORS_PER_CHUNK <= n THEN MAX_VECTORS_PER_CHUNK
    ELSE n - (j - 1) * MAX_VECTORS_PER_CHUNK

\* C2: process_file on n >= 1 passages returns ceil(n / MAX_VECTORS_PER_CHUNK)
\* chunks, every one but the last of MAX_VECTORS_PER_CHUNK vectors, the last
\* holding the non-empty remainder, and the vector at position i of chunk j
\* carries chunk = j and offset = i.
C2_ChunkShape ==
    wchunks # <<>> =>
        /\ (Len(wchunks) - 1) * MAX_VECTORS_PER_CHUNK < wfile.n
        /\ wfile.n <= Len(wchunks) * MAX_VECTORS_PER_CHUNK
        /\ \A j \in 1..Len(wchunks) :
              /\ Len(wchunks[j]) = ExpectedSize(wfile.n, j)
              /\ Len(wchunks[j]) >= 1
              /\ \A i \in 1..Len(wchunks[j]) :
                    /\ wchunks[j][i].pointer.chunk = PyNat(j - 1)
                    /\ wchunks[j][i].pointer.offset = PyNat(i - 1)

\* A file that fills two chunks and starts a third
C2_Witness ==
    /\ Len(wchunks) = 3
    /\ Len(wchunks[1]) = MAX_VECTORS_PER_CHUNK
    /\ Len(wchunks[2]) = MAX_VECTORS_PER_CHUNK
    /\ Len(wchunks[3]) = 1
    /\ wfile.n = 2 * MAX_VECTORS_PER_CHUNK + 1

ResultIds(res) == [i \in 1..Len(res.search_results) |-> res.search_results[i].metadata.vector_index]

RECURSIVE IsSubsequence(_, _)
IsSubsequence(s, t) ==
    IF s = <<>> THEN TRUE
    ELSE IF t = <<>> THEN FALSE
    ELSE IF Head(s) = Head(t) THEN IsSubsequence(Tail(s), Tail(t))
    ELSE IsSubsequence(s, Tail(t))

\* C3: query_system returns its results in the order the index returned
\* their ids: the result ids are a subsequence of the ids of the search,
\* each result carries the distance the search returned for its id, and the
\* result distances are non-decreasing.
C3_ResultsInIndexOrder ==
    (qcall # NoCall /\ qres.success /\ qres.search_results # <<>>) =>
        /\ IsSubsequence(ResultIds(qres), qtrace.search.vector_ids)
        /\ \A i \in 1..Len(qres.search_results) :
              \E j \in 1..Len(qtrace.search.vector_ids) :
                  /\ qtrace.search.vector_ids[j] = qres.search_results[i].metadata.vector_index
                  /\ qtrace.search.distances[j] = qres.search_results[i].distance
        /\ \A i \in 1..(Len(qres.search_results) - 1) :
              qres.search_results[i].distance <= qres.search_results[i + 1].distance

\* The chunks a call needed were all resolved
AllResolved(trace) == trace.wanted # {} /\ trace.wanted \subseteq trace.resolved

\* C4: after a query has resolved its chunks and populated the cache, with
\* nothing but deletions from the store in between, the identical query on
\* the same index and cache returns success with the same ids, payloads and
\* distances, and asks the store for nothing.
C4_WarmPath ==
    (prev # NoCall /\ prev.res.success /\ AllResolved(prev.trace)) =>
        /\ qres.success
        /\ qres = prev.res
        /\ qtrace.gets = <<>>

\* The first query read two chunks from the store, both were then deleted,
\* and the second query answered
C4_Witness ==
    /\ prev # NoCall
    /\ prev.res.success
    /\ AllResolved(prev.trace)
    /\ Len(prev.trace.gets) = 2
    /\ StoredChunkIds \cap prev.trace.wanted = {}
    /\ qres.total_found = 2
    /\ qtrace.gets = <<>>

ChunkIdOf(vector_id) == generate_chunk_id(decode(vector_id).document, decode(vector_id).chunk)

RECURSIVE IdsIn(_, _)
IdsIn(vector_ids, resolved) ==
    IF vector_ids = <<>> THEN <<>>
    ELSE IF ChunkIdOf(Head(vector_ids)) \in resolved
    THEN <<Head(vector_ids)>> \o IdsIn(Tail(vector_ids), resolved)
    ELSE IdsIn(Tail(vector_ids), resolved)

\* C5: if a chunk a query needs is neither cached nor returned by the store,
\* query_system still returns success with every result whose id maps to a
\* chunk that did resolve, and omits exactly the ids of the failed chunks.
C5_PartialResults ==
    (qcall # NoCall /\ qtrace.wanted \ qtrace.resolved # {}) =>
        /\ qres.success
        /\ ResultIds(qres) = IdsIn(qtrace.search.vector_ids, qtrace.resolved)

\* The entries of the index strictly within t of the query
WithinThreshold(q, t) == {i \in 1..Len(index) : SqDist(index[i].values, q) < t}

\* C6: with a threshold t, search returns two lists of equal length, of at
\* most k entries, every distance strictly below t; when more than k entries
\* lie within t, the k nearest of them.
C6_ThresholdSearch ==
    (qcall # NoCall /\ qcall.threshold # None) =>
        /\ ~qtrace.search.raised
        /\ Len(qtrace.search.distances) = Len(qtrace.search.vector_ids)
        /\ Len(qtrace.search.distances) <= qcall.k
        /\ \A i \in 1..Len(qtrace.search.distances) :
              qtrace.search.distances[i] < qcall.threshold.float
        /\ LET q == Float32Row(generate_one(qcall.query_text))
               within == WithinThreshold(q, qcall.threshold.float)
           IN  Cardinality(within) > qcall.k =>
                  /\ Len(qtrace.search.distances) = qcall.k
                  /\ \A i \in 1..Len(qtrace.search.distances) :
                        Cardinality({e \in within :
                            SqDist(index[e].values, q) < qtrace.search.distances[i]}) < qcall.k

RECURSIVE SumVectors(_)
SumVectors(s3_uploads) ==
    IF s3_uploads = <<>> THEN 0
    ELSE Head(s3_uploads).number_of_vectors + SumVectors(Tail(s3_uploads))

\* C7: add_file_to_system on a readable file of n >= 1 passages, against a
\* store that accepts every put, returns success with a document id,
\* total_vectors = n, one upload per chunk, the uploads' vectors summing to
\* total_vectors, and an i-th upload whose chunk id decodes to (document_id,
\* i) and whose key is chunks/<chunk_id>.pkl.
C7_AddFileReturn ==
    (wres # NoCall /\ wres.accepts /\ wres.file.n >= 1) =>
        /\ wres.result.success
        /\ wres.result.document_id # None
        /\ wres.result.total_vectors = wres.file.n
        /\ Len(wres.result.s3_uploads) = wres.result.chunks_count
        /\ SumVectors(wres.result.s3_uploads) = wres.result.total_vectors
        /\ \A i \in 1..Len(wres.result.s3_uploads) :
              /\ decode_chunk_id(wres.result.s3_uploads[i].chunk_id)
                    = [document |-> wres.result.document_id, chunk |-> PyNat(i - 1)]
              /\ wres.result.s3_uploads[i].s3_key
                    = create_chunk_key(wres.result.s3_uploads[i].chunk_id)

\* The ids process_file gave the vectors of an ingested file
IdsOf(m) ==
    LET vectors == Flatten(process_file(m.file, m.document, <<>>).chunks)
    IN  {vectors[i].pointer.index : i \in 1..Len(vectors)}

HeldIds == {v.pointer.index : v \in Range(Flatten(wchunks))}

\* C8: within an ingest, all the document's vectors are in the index before
\* the first chunk is put: whenever a caller holds chunks to upload their
\* ids are in the index, and whenever a chunk of a document is in the store
\* every id of that document is in the index.
C8_IndexBeforeStore ==
    /\ HeldIds \subseteq IndexIds
    /\ \A chunk_id \in StoredChunkIds : \A i \in 1..Len(minted) :
          minted[i].document = decode_chunk_id(chunk_id).document
              => IdsOf(minted[i]) \subseteq IndexIds

\* The first chunk of a document is in the store, the second still to put
C8_Witness ==
    /\ wchunks # <<>>
    /\ \E chunk_id \in StoredChunkIds :
          /\ decode_chunk_id(chunk_id).document = wchunks[1][1].pointer.document
          /\ decode_chunk_id(chunk_id).chunk # wchunks[1][1].pointer.chunk

\* C9: no two ingested files are ever given the same document id.
C9_DocumentIdsDistinct ==
    \A i, j \in 1..Len(minted) : i # j => minted[i].document # minted[j].document

\* C10: two in-range pointers have equal chunk ids exactly when they share
\* document and chunk; decode_chunk_id undoes generate_chunk_id;
\* Vector.get_chunk_id agrees with generate_chunk_id; and
\* _group_vectors_by_chunk puts two ids in one group exactly when they share
\* document and chunk.
C10_ChunkIdInjective ==
    /\ pret.op = "chunk_id" =>
          /\ (pret.a = pret.b) <=> (pa.document = pb.document /\ pa.chunk = pb.chunk)
          /\ pret.back = [document |-> pa.document, chunk |-> pa.chunk]
          /\ pret.vec = pret.a
    /\ pret.op = "group" =>
          /\ (Len(pret.groups) = 1) <=> (pa.document = pb.document /\ pa.chunk = pb.chunk)
          /\ \A g \in 1..Len(pret.groups) : \A i \in 1..Len(pret.groups[g].ids) :
                pret.groups[g].chunk_id = ChunkIdOf(pret.groups[g].ids[i])
          /\ Len(pret.groups) = 1 => Len(pret.groups[1].ids) = 2

\* Two ids of one document and one offset, in different chunks, grouped apart
C10_Witness ==
    /\ pret.op = "group"
    /\ Len(pret.groups) = 2
    /\ pa.document = pb.document
    /\ pa.offset = pb.offset
    /\ pa.chunk # pb.chunk

\* The (document, chunk, offset) a pointer object reports
Components(pointer) ==
    [document |-> pointer.document, chunk |-> pointer.chunk, offset |-> pointer.offset]

\* C11: for every id with 0 <= id < 2^63, encode(*decode(id)) is id, and
\* both Pointer.from_index(id) and Vector(values, index=id) report index = id
\* together with the (document, chunk, offset) that decode(id) gives, each
\* within its field's range.
C11_IdRoundTrip ==
    pret.op = "from_index" =>
        /\ pret.again = pret.id
        /\ pret.pointer.index = pret.id
        /\ Components(pret.pointer) = pret.triple
        /\ pret.vector.pointer.index = pret.id
        /\ Components(pret.vector.pointer) = pret.triple
        /\ InBits(pret.triple.document, DOCUMENT_BITS)
        /\ InBits(pret.triple.chunk, CHUNK_BITS)
        /\ InBits(pret.triple.offset, OFFSET_BITS)

\* The largest id, 2^63 - 1, rebuilt from its three full fields
C11_Witness ==
    /\ pret.op = "from_index"
    /\ pret.id = [neg |-> FALSE, bits |-> 0..62]
    /\ pret.triple = [document |-> MAX_DOCUMENT, chunk |-> MAX_CHUNK, offset |-> MAX_OFFSET]
    /\ pret.vector.pointer.index = pret.id

\* The cache entry of a chunk is there and is no pickle
Undecodable(cid) ==
    CacheKey(cid) \in DOMAIN cache /\ cache[CacheKey(cid)].data = Garbage

\* C12: a query that meets a cache that does not answer, or an undecodable
\* entry for a chunk it needs, treats it as a miss: it returns success, and
\* every chunk it needs that the store holds is resolved from the store.
C12_CacheFaultIsMiss ==
    (/\ qcall # NoCall
     /\ qtrace.wanted # {}
     /\ (~qcall.cache_up \/ \E cid \in qtrace.wanted : Undecodable(cid))) =>
        /\ qres.success
        /\ qtrace.wanted \cap StoredChunkIds \subseteq qtrace.resolved

\* ceil(n / MAX_VECTORS_PER_CHUNK), the chunks of a file of n passages
ChunksOf(n) == (n + MAX_VECTORS_PER_CHUNK - 1) \div MAX_VECTORS_PER_CHUNK

\* C13: when the store rejects the put of some chunk of the document,
\* add_file_to_system still returns one upload record per chunk, each with
\* its chunk's own success flag and the failed ones with an error; the
\* summary success is true exactly when every upload succeeded; the
\* document's vectors stay in the index and the chunks whose put was
\* accepted are in the store when the call returns.
C13_PartialUpload ==
    (/\ wres # NoCall
     /\ \E i \in 1..ChunksOf(wres.file.n) : ~wres.puts[i]) =>
        /\ Len(wres.result.s3_uploads) = ChunksOf(wres.file.n)
        /\ \A i \in 1..Len(wres.result.s3_uploads) :
              /\ wres.result.s3_uploads[i].success = wres.puts[i]
              /\ ~wres.puts[i] => "error" \in DOMAIN wres.result.s3_uploads[i]
              /\ wres.puts[i] => wres.result.s3_uploads[i].chunk_id \in wres.stored
        /\ wres.result.success
              = (\A i \in 1..Len(wres.result.s3_uploads) : wres.result.s3_uploads[i].success)
        /\ ~wres.result.success
        /\ \E i \in 1..Len(minted) :
              minted[i].file = wres.file /\ IdsOf(minted[i]) \subseteq IndexIds

\* C14: every add_file_to_system call adds to the index exactly the
\* total_vectors it reports, so that from an empty index size() is the sum of
\* the totals reported; a call that reports total_vectors = 0 and no document
\* id leaves the index as it was.
C14_SizeIsReportedTotal ==
    [][(wres' # NoCall /\ Len(minted') = Len(minted) + 1) =>
          /\ size(index') = size(index) + wres'.result.total_vectors
          /\ (wres'.result.total_vectors = 0 /\ wres'.result.document_id = None)
                => index' = index]_vars

\* C15: a new index has size 0 and its size never decreases: every step
\* keeps the entries there were, unchanged and in place; add_vectors(vs)
\* adds exactly len(vs) entries and add_vectors([]) none; search,
\* multi_search, get_info and query_system leave the index as it was.
C15_IndexMonotonic ==
    /\ size(index) = 0
    /\ [][/\ size(index') >= size(index)
          /\ SubSeq(index', 1, Len(index)) = index
          /\ IndexAdd => size(index') = size(index) + pret'.n
          /\ (IndexAdd /\ pret'.n = 0) => index' = index
          /\ ~IndexAdd => index' = index]_vars

\* A full index after an empty add, with a search of it behind and a query
\* that found entries in it
C15_Witness ==
    /\ pret = [op |-> "add_vectors", n |-> 0]
    /\ size(index) = MaxEntries
    /\ qcall # NoCall
    /\ ~qtrace.search.raised
    /\ qtrace.wanted # {}

\* A successful upload or a delete of the chunk took place in this step
Rewrites(cid) ==
    \/ StoreUpload /\ pret'.chunk_id = cid /\ ~pret'.raised /\ pret'.result.success
    \/ StoreDelete /\ pret'.chunk_id = cid

\* What download_vector_chunk returns for a chunk that the store holds with
\* the given arrays
RoundTrip(got, vectors) ==
    /\ got.success
    /\ got.vectors.dtype = "float32"
    /\ Len(got.vectors.rows) = Len(vectors)
    /\ \A i \in 1..Len(vectors) :
          /\ got.vectors.rows[i] = Float32Row(vectors[i].data)
          /\ Len(got.vectors.rows[i]) = Len(got.vectors.rows[1])

C17_DeleteIdempotent ==
    [][StoreDelete =>
          /\ pret'.result.success
          /\ ~download_vector_chunk(pret'.chunk_id, objects', Bucket).success
          /\ delete_vector_chunk(pret'.chunk_id, objects', Bucket).objects = objects'
          /\ delete_vector_chunk(pret'.chunk_id, objects', Bucket).result = pret'.result
          /\ ~pret'.existed => objects' = objects
          /\ \A cid \in StoreChunkSample \ {pret'.chunk_id} :
                download_vector_chunk(cid, objects', Bucket)
                    = download_vector_chunk(cid, objects, Bucket)
          /\ DOMAIN objects'
                = DOMAIN objects \ {FullKey(Bucket, create_chunk_key(pret'.chunk_id))}]_vars

\* A chunk that was in the store has been deleted and the other chunk is
\* still there
C17_Witness ==
    /\ pret.op = "delete"
    /\ pret.existed
    /\ pret.chunk_id \notin StoredChunkIds
    /\ StoredChunkIds # {}

\* C18: an add_vectors call never overlaps another add_vectors call nor a
\* search in progress on the same index.
C18_WritesExclusive ==
    \A t \in Threads : \A u \in Threads \ {t} :
        Adding(t) => ~Adding(u) /\ ~Searching(u)

\* The result a finished call would have had, had it run by itself from
\* the cache it found when it was made
Alone(c) ==
    query_system(c.query_text, index, scan, Bucket, c.k, c.threshold, objects, c.cache0, TRUE).result

\* C19: under any interleaving of query_system calls on one index, one cache
\* and one store, with no ingest in progress, each call returns exactly the
\* result it would return if run alone, a success, with no result twice and
\* the distances of its results non-decreasing.
C19_ConcurrentQueries ==
    \A t \in Threads :
        calls[t].pc = "done" =>
            /\ calls[t].result = Alone(calls[t].call)
            /\ calls[t].result.success
            /\ \A i \in 1..Len(calls[t].result.search_results) :
                  \A j \in 1..Len(calls[t].result.search_results) :
                     /\ i < j => calls[t].result.search_results[i].distance
                                    <= calls[t].result.search_results[j].distance
                     /\ i # j => ResultIds(calls[t].result)[i] # ResultIds(calls[t].result)[j]

\* C20: HNSWIndex.search returns two lists of one length, the distances
\* non-decreasing and each the distance of the entry whose id stands at its
\* place, without a threshold and with one, whether at most k or more than k
\* entries lie within it.
C20_SearchAscending ==
    pret.op = "search" =>
        /\ ~pret.result.raised
        /\ Len(pret.result.distances) = Len(pret.result.vector_ids)
        /\ \A i \in 1..(Len(pret.result.distances) - 1) :
              pret.result.distances[i] <= pret.result.distances[i + 1]
        /\ \A i \in 1..Len(pret.result.vector_ids) :
              \/ pret.result.vector_ids[i] = PadEntry.id
              \/ \E e \in 1..Len(index) :
                    /\ index[e].id = pret.result.vector_ids[i]
                    /\ SqDist(index[e].values, Float32Row(pret.query_embedding))
                          = pret.result.distances[i]

\* C21: multi_search of no queries returns two empty lists, and for every
\* other list of queries it returns, for each query, the distances and the
\* ids that search returns for that query with the same k and threshold.
C21_MultiSearchIsSearch ==
    pret.op = "multi_search" =>
        /\ ~pret.result.raised
        /\ Len(pret.result.distances) = Len(pret.query_vectors)
        /\ Len(pret.result.vector_ids) = Len(pret.query_vectors)
        /\ \A i \in 1..Len(pret.query_vectors) :
              /\ ~search(index, scan, pret.query_vectors[i].values, pret.k, pret.threshold).raised
              /\ pret.result.distances[i] =
                    search(index, scan, pret.query_vectors[i].values, pret.k, pret.threshold).distances
              /\ pret.result.vector_ids[i] =
                    search(index, scan, pret.query_vectors[i].values, pret.k, pret.threshold).vector_ids

\* The chunks of ingested vectors that a call needed and did not resolve
FailedChunks == {ChunkIdOf(id) : id \in IndexIds} \cap (qtrace.wanted \ qtrace.resolved)

\* C22: when a chunk that a query needs does not resolve, the response has,
\* besides the fields of a response without failure, a field that names the
\* chunks that failed.
C22_FailedChunkNamed ==
    (qcall # NoCall /\ FailedChunks # {}) =>
        \E f \in DOMAIN qres \ DOMAIN QuerySuccess(<<>>, <<>>, <<>>) :
            \A cid \in FailedChunks : cid \in DOMAIN qres[f]

\* C23: encode and the Pointer constructor, given a field outside its range
\* or negative, and decode, given an id that is negative or at least 2^63,
\* raise InvalidPointer and return no value.
C23_MalformedRejected ==
    pret.op = "malformed" =>
        /\ pret.encoded = Raise("InvalidPointer")
        /\ pret.pointer = Raise("InvalidPointer")
        /\ pret.decoded = Raise("InvalidPointer")

\* C24: a put that fails with a transient error is made again before
\* upload_vector_chunk reports a failure, so that a put which would be
\* accepted the second time is not reported as failed; a put that fails with
\* another error is made once.
C24_TransientRetried ==
    (pret.op = "upload" /\ ~pret.raised) =>
        /\ Head(pret.outcomes) = "timeout" => pret.put_calls > 1 /\ pret.result.success
        /\ Head(pret.outcomes) = "AccessDenied" => pret.put_calls = 1 /\ ~pret.result.success

\* C25: on the cache, every operation does to the keys what it does to a
\* map.  set and batch_set leave their keys present with the values given
\* and every other key as it was; get returns None for an absent key and
\* changes nothing; delete returns true exactly when the key was present,
\* leaves it absent and every other key as it was; clear leaves no key;
\* batch_get returns exactly the requested keys that are present, each with
\* the value get returns for it, and changes nothing.
C25_CacheIsMap ==
    [][/\ pret'.op = "set" =>
            \A k \in CacheKeySample :
                IF k = pret'.key
                THEN exists(cache', k) /\ get(cache', k) = pret'.value
                ELSE exists(cache', k) = exists(cache, k) /\ get(cache', k) = get(cache, k)
       /\ pret'.op = "batch_set" =>
            \A k \in CacheKeySample :
                IF k \in DOMAIN pret'.items
                THEN exists(cache', k) /\ get(cache', k) = pret'.items[k]
                ELSE exists(cache', k) = exists(cache, k) /\ get(cache', k) = get(cache, k)
       /\ pret'.op = "get" =>
            /\ pret'.exists = (pret'.key \in DOMAIN cache)
            /\ ~pret'.exists => pret'.result = None
            /\ \A k \in CacheKeySample :
                  exists(cache', k) = exists(cache, k) /\ get(cache', k) = get(cache, k)
       /\ pret'.op = "delete" =>
            /\ pret'.result = exists(cache, pret'.key)
            /\ \A k \in CacheKeySample :
                  IF k = pret'.key THEN ~exists(cache', k) /\ get(cache', k) = None
                  ELSE exists(cache', k) = exists(cache, k) /\ get(cache', k) = get(cache, k)
       /\ pret'.op = "clear" =>
            \A k \in CacheKeySample : ~exists(cache', k) /\ get(cache', k) = None
       /\ pret'.op = "batch_get" =>
            /\ ~pret'.result.raised
            /\ DOMAIN pret'.result.out = {k \in Range(pret'.keys) : exists(cache, k)}
            /\ \A k \in DOMAIN pret'.result.out : pret'.result.out[k] = get(cache, k)
            /\ \A k \in CacheKeySample :
                  exists(cache', k) = exists(cache, k) /\ get(cache', k) = get(cache, k)
      ]_vars

\* A key that was present has been deleted and another key is still there
C25_Witness ==
    /\ pret.op = "delete"
    /\ pret.result
    /\ cache # EmptyMap

\* C26: add_file_to_system on a file that cannot be opened or read returns
\* success false with an error, no document id, no vectors, no chunks and no
\* uploads, and leaves the index and the store as they were.
C26_BadFileFails ==
    [][AddBadFile =>
          /\ ~wres'.result.success
          /\ "error" \in DOMAIN wres'.result
          /\ wres'.result.document_id = None
          /\ wres'.result.total_vectors = 0
          /\ wres'.result.chunks_count = 0
          /\ wres'.result.s3_uploads = <<>>
          /\ index' = index
          /\ objects' = objects
      ]_vars

\* A file that cannot be read was given to a system that holds vectors and
\* chunks
C26_Witness ==
    /\ wres # NoCall
    /\ "fault" \in DOMAIN wres.file
    /\ index # <<>>
    /\ objects # EmptyMap

\* C27: a query whose search yields no ids returns success with no result;
\* a query without a threshold on an index of fewer than k vectors, whose
\* search pads its answer with the id -1, returns success with a result for
\* every real hit whose chunk resolved and none for the padding; and no
\* successful query returns a result for an id that is not in the index.
C27_PaddingGivesNoResult ==
    qcall # NoCall =>
        /\ (~qtrace.search.raised /\ qtrace.search.vector_ids = <<>>) =>
              qres.success /\ qres.search_results = <<>>
        /\ (qcall.threshold = None /\ Len(index) < qcall.k) =>
              /\ qres.success
              /\ PadEntry.id \in Range(qtrace.search.vector_ids)
              /\ PadEntry.id \notin Range(ResultIds(qres))
              /\ ResultIds(qres) = IdsIn(SelectIn(qtrace.search.vector_ids, IndexIds),
                                         qtrace.resolved)
        /\ qres.success => Range(ResultIds(qres)) \subseteq IndexIds

\* A query for two neighbours on an index of one vector returned that vector
C27_Witness ==
    /\ qcall # NoCall
    /\ qcall.threshold = None
    /\ Len(index) < qcall.k
    /\ Len(qres.search_results) = 1
    /\ Len(qtrace.search.vector_ids) = 2

\* The vectors the ingests so far have made
Ingested ==
    UNION {Range(Flatten(process_file(minted[i].file, minted[i].document, <<>>).chunks)) :
               i \in 1..Len(minted)}

\* C28: every result of a successful query carries, as vector_values, the
\* embedding of the vector that was ingested under the result's id.
C28_PayloadIsIngested ==
    (qcall # NoCall /\ qres.success) =>
        \A i \in 1..Len(qres.search_results) :
            \A v \in Ingested :
                v.pointer.index = qres.search_results[i].metadata.vector_index =>
                    qres.search_results[i].vector_values = Float32Row(v.values)

\* C29: a query leaves the index and the store as they were, asks the store
\* for no chunk that is in the cache, and changes the cache only by writing
\* each chunk it has just downloaded, under 'chunk:<chunk_id>', pickled, with
\* a TTL of 86400 seconds; a chunk whose download failed gets no entry and
\* every other entry stays as it was.
C29_CacheWriteBack ==
    [][Query =>
          /\ index' = index
          /\ objects' = objects
          /\ \A cid \in Range(qtrace'.gets) : CacheKey(cid) \notin DOMAIN cache
          /\ \A cid \in Range(qtrace'.gets) :
                IF download_vector_chunk(cid, objects, Bucket).success
                THEN /\ CacheKey(cid) \in DOMAIN cache'
                     /\ cache'[CacheKey(cid)].data
                           = PickleDumps(download_vector_chunk(cid, objects, Bucket).vectors)
                     /\ cache'[CacheKey(cid)].ex = 86400
                ELSE CacheKey(cid) \notin DOMAIN cache'
          /\ \A key \in DOMAIN cache' :
                \/ key \in DOMAIN cache /\ cache'[key] = cache[key]
                \/ key \in {CacheKey(cid) : cid \in Range(qtrace'.gets)}
          /\ DOMAIN cache \subseteq DOMAIN cache'
      ]_vars

\* A query has asked the store for two chunks: one came and is cached, the
\* other failed and is not
C29_Witness ==
    /\ qcall # NoCall
    /\ \E cid \in Range(qtrace.gets) : CacheKey(cid) \in DOMAIN cache
    /\ \E cid \in Range(qtrace.gets) : CacheKey(cid) \notin DOMAIN cache

\* C30: MAX_VECTORS_PER_CHUNK is at most 2^16, and in the chunks process_file
\* returns every pointer has its offset below MAX_VECTORS_PER_CHUNK, its
\* chunk below 2^20 and its document below 2^27; all vectors carry one
\* document id, no two vectors carry the same id, and the vectors of one
\* returned chunk carry one chunk id.
C30_PointersInRange ==
    /\ MAX_VECTORS_PER_CHUNK <= 2^OFFSET_BITS
    /\ \A j \in 1..Len(wchunks) : \A i \in 1..Len(wchunks[j]) :
          /\ InBits(wchunks[j][i].pointer.offset, OFFSET_BITS)
          /\ NatOf(wchunks[j][i].pointer.offset) < MAX_VECTORS_PER_CHUNK
          /\ InBits(wchunks[j][i].pointer.chunk, CHUNK_BITS)
          /\ InBits(wchunks[j][i].pointer.document, DOCUMENT_BITS)
          /\ wchunks[j][i].pointer.document = wchunks[1][1].pointer.document
          /\ VectorGetChunkId(wchunks[j][i]) = VectorGetChunkId(wchunks[j][1])
          /\ \A jj \in 1..Len(wchunks) : \A ii \in 1..Len(wchunks[jj]) :
                wchunks[jj][ii].pointer.index = wchunks[j][i].pointer.index
                    => jj = j /\ ii = i

\* A file under the largest document id that fills more than one chunk
C30_Witness ==
    /\ Len(wchunks) >= 2
    /\ Len(wchunks[2]) = MAX_VECTORS_PER_CHUNK
    /\ wchunks[1][1].pointer.document = MAX_DOCUMENT

=============================================================================
